---- MODULE Spec2Model ----
(***************************************************************************)
(* Model of the data acquisition and caching pipeline of apex-backtester:  *)
(* BaseDataLoader (core/dataloader/base.py) and BinanceDataLoader          *)
(* (core/dataloader/binance.py), driven as in main.py.                     *)
(*                                                                         *)
(* Strings that the code takes apart or joins (symbols, cache file names)  *)
(* are sequences of tokens: "BTCUSDT" is <<"BTC", "USDT">>.                *)
(* A DataFrame is a record [index, cols]: the index is the sequence of     *)
(* timestamps, cols maps a column name to its sequence of cells.           *)
(***************************************************************************)
EXTENDS Integers, Sequences, FiniteSets, TLC

VARIABLES
    symbols,      \* self.symbols
    pairs_limit,  \* self.pairs_limit
    use_ctx,      \* TRUE: the caller runs `async with loader` (main.py); FALSE: it calls load_historical_data directly
    tickers,      \* what client.get_ticker() answers: a sequence of tickers, or TickerFailure
    provider,     \* per symbol, what client.get_historical_klines / fetch_ohlcv answers
    write_ok,     \* per symbol, whether DataFrame.to_parquet on its cache file succeeds
    cache,        \* the cache directory: file name -> file content
    client,       \* self.client: "None", "open" or "closed"
    created,      \* number of AsyncClient.create calls that returned a client
    closed,       \* number of client.close_connection calls
    ctx,          \* position of the caller of the loader (fetch_price_data)
    tasks,        \* the asyncio tasks created by load_historical_data, in creation order
    pos,          \* position of the loop of load_historical_data in the keys of its tasks dict
    data,         \* the dict `data` of load_historical_data
    result,       \* how load_historical_data ended
    vdf,          \* the DataFrame handed to _validate_data (validation specification)
    vres,         \* what _validate_data answered for vdf
    kq,           \* two acquisitions and the cache entries they address (cache-key specification)
    cache0        \* history: the cache directory as it was when the run started

vars == <<symbols, pairs_limit, use_ctx, tickers, provider, write_ok, cache, client,
          created, closed, ctx, tasks, pos, data, result, vdf, vres, kq, cache0>>

pipeline_vars == <<symbols, pairs_limit, use_ctx, tickers, provider, write_ok, cache, client,
                   created, closed, ctx, tasks, pos, data, result>>

----------------------------------------------------------------------------
(* Bounds of the model *)

\* longest explicit symbol list
MaxSymbols == 2

\* most rows of a DataFrame handed to the validator
MaxBars == 2

\* largest timestamp of a DataFrame handed to the validator
MaxTs == 2

\* most cells of a DataFrame handed to the validator that differ from a clean value
MaxDefects == 1

----------------------------------------------------------------------------
(* Cells and DataFrames *)

Num(v) == [kind |-> "num", val |-> v]

\* a missing value (NaN / None)
NaN == [kind |-> "nan", val |-> 0]

\* a string in an object column
Str == [kind |-> "str", val |-> 0]

\* a value of a dtype that compares with numbers but is neither float nor int (bool)
Bool == [kind |-> "bool", val |-> 1]

required_columns == {"open", "high", "low", "close", "volume"}

Range(f) == {f[i] : i \in DOMAIN f}

DataFrame(index, cols) == [kind |-> "DataFrame", index |-> index, cols |-> cols]

\* df.empty: an axis of length 0
empty(df) == Len(df.index) = 0 \/ DOMAIN df.cols = {}

\* df.isna().any().any()
isna_any(df) == \E c \in DOMAIN df.cols : \E i \in DOMAIN df.cols[c] : df.cols[c][i] = NaN

\* df.index.duplicated().any()
duplicated_any(index) == \E i, j \in DOMAIN index : i < j /\ index[i] = index[j]

\* df[col].dtype in [float, int]: every cell of the column is a number
dtype_numeric(col) == \A i \in DOMAIN col : col[i].kind = "num"

Pass == [exc |-> "None", reason |-> "pass"]

Raise(exc, reason) == [exc |-> exc, reason |-> reason]

\* (df[list(required_columns)] < 0): comparing a string cell with 0 raises TypeError
compare_raises(df) ==
    \E c \in required_columns : \E i \in DOMAIN df.cols[c] : df.cols[c][i].kind = "str"

\* (df[list(required_columns)] < 0).any().any()
negative_any(df) ==
    \E c \in required_columns : \E i \in DOMAIN df.cols[c] :
        df.cols[c][i].kind \in {"num", "bool"} /\ df.cols[c][i].val < 0

\* _validate_data without its check of duplicated index values
validate_data_no_duplicate_check(df) ==
    IF empty(df) THEN Raise("DataValidationError", "Empty DataFrame")
    ELSE IF ~(required_columns \subseteq DOMAIN df.cols)
        THEN Raise("DataValidationError", "Missing required columns")
    ELSE IF isna_any(df) THEN Raise("DataValidationError", "NaN values found")
    ELSE IF compare_raises(df) THEN Raise("TypeError", "'<' not supported")
    ELSE IF negative_any(df) THEN Raise("DataValidationError", "Negative values")
    ELSE IF ~(\A c \in required_columns : dtype_numeric(df.cols[c]))
        THEN Raise("DataValidationError", "Incorrect data format")
    ELSE Pass

\* BaseDataLoader._validate_data: Pass when it returns, else the exception it raises
_validate_data(df) ==
    IF empty(df) THEN Raise("DataValidationError", "Empty DataFrame")
    ELSE IF ~(required_columns \subseteq DOMAIN df.cols)
        THEN Raise("DataValidationError", "Missing required columns")
    ELSE IF isna_any(df) THEN Raise("DataValidationError", "NaN values found")
    ELSE IF compare_raises(df) THEN Raise("TypeError", "'<' not supported")
    ELSE IF negative_any(df) THEN Raise("DataValidationError", "Negative values")
    ELSE IF duplicated_any(df.index) THEN Raise("DataValidationError", "Duplicate timestamps")
    ELSE IF ~(\A c \in required_columns : dtype_numeric(df.cols[c]))
        THEN Raise("DataValidationError", "Incorrect data format")
    ELSE Pass

----------------------------------------------------------------------------
(* The validation specification: _validate_data applied to bounded DataFrames *)

\* the index values of the frames handed to the validator
Indexes == UNION {[1..n -> 1..MaxTs] : n \in 0..MaxBars}

\* the sets of columns of the frames handed to the validator
ColumnSets == {required_columns, required_columns \cup {"symbol"},
               required_columns \ {"volume"}, {}}

\* what a cell may hold instead of a clean value
DefectValues == {Num(-1), NaN, Str, Bool}

CleanCell(c) == IF c = "symbol" THEN Str ELSE Num(1)

\* the frame with the given index and columns, clean but for the cells in defects
FrameWith(index, colset, defects) ==
    DataFrame(index,
        [c \in colset |-> [i \in DOMAIN index |->
            IF \E d \in defects : d.col = c /\ d.row = i
            THEN (CHOOSE d \in defects : d.col = c /\ d.row = i).val
            ELSE CleanCell(c)]])

\* the sets of at most k cells to spoil
RECURSIVE DefectSets(_, _)
DefectSets(cells, k) ==
    IF k = 0 THEN {{}}
    ELSE LET smaller == DefectSets(cells, k - 1)
         IN  smaller \cup {ds \cup {d} : ds \in smaller, d \in cells}

Defects(index, colset) ==
    {ds \in DefectSets([col : colset, row : DOMAIN index, val : DefectValues], MaxDefects) :
        \A d, e \in ds : (d.col = e.col /\ d.row = e.row) => d = e}

NotValidated == [exc |-> "None", reason |-> "not validated"]

Validate ==
    /\ vres = NotValidated
    /\ vres' = _validate_data(vdf)
    /\ UNCHANGED <<vdf, kq, cache0, pipeline_vars>>

----------------------------------------------------------------------------
(* Symbols, cache files and the parquet encoding *)

BTCUSDT == <<"BTC", "USDT">>

ETHUSDT == <<"ETH", "USDT">>

ETHBTC == <<"ETH", "BTC">>

LTCBTC == <<"LTC", "BTC">>

\* the symbols a caller configures (main.py) and the ones the liquidity query can add
ConfiguredSymbols == {BTCUSDT, ETHUSDT}

AllSymbols == ConfiguredSymbols \cup {ETHBTC, LTCBTC}

timeframe == <<"1m">>

start_date == <<"1 Mar, 2025">>

end_date == <<"28 Mar, 2025">>

cache_dir == <<"data">>

base_asset == <<"BTC">>

\* the configuration __init__ stores on the loader; main.py passes symbols only
main_loader ==
    [timeframe |-> timeframe, start_date |-> start_date, end_date |-> end_date,
     base_asset |-> base_asset, pairs_limit |-> 100, api_key |-> "None",
     testnet |-> FALSE, cache_dir |-> cache_dir]

\* the file name with the base asset of the loader in it
generate_cache_filename_with_base_asset(self, symbol) ==
    symbol \o <<"_">> \o self.base_asset \o <<"_">> \o self.timeframe
        \o <<"_">> \o self.start_date \o <<"_">> \o self.end_date

\* the file name without the symbol
generate_cache_filename_without_symbol(self, symbol) ==
    self.timeframe \o <<"_">> \o self.start_date \o <<"_">> \o self.end_date

\* f"{symbol}_{self.timeframe}_{self.start_date}_{self.end_date}"
generate_cache_filename(self, symbol) ==
    symbol \o <<"_">> \o self.timeframe \o <<"_">> \o self.start_date \o <<"_">> \o self.end_date

\* os.path.join(self.cache_dir, f"{filename}.parquet")
cache_filepath(self, filename) == self.cache_dir \o <<"/">> \o filename \o <<".parquet">>

\* _generate_cache_filename of the loader of main.py
_generate_cache_filename(symbol) == generate_cache_filename(main_loader, symbol)

\* the path _save_to_cache and _load_from_cache build, for the loader of main.py
filepath(filename) == cache_filepath(main_loader, filename)

CacheFiles == {filepath(_generate_cache_filename(s)) : s \in AllSymbols}

None == [kind |-> "None"]

\* no file at the path
Absent == [kind |-> "absent"]

\* a file that pd.read_parquet cannot read
Corrupt == [kind |-> "corrupt"]

\* to_parquet that writes the row numbers in place of the index
to_parquet_without_index(df) ==
    [kind |-> "parquet",
     index_column |-> "timestamp",
     columns |-> [c \in DOMAIN df.cols \cup {"timestamp"} |->
                    IF c = "timestamp" THEN [i \in DOMAIN df.index |-> i] ELSE df.cols[c]]]

\* DataFrame.to_parquet: the index is written as one more column, named in the metadata
to_parquet(df) ==
    [kind |-> "parquet",
     index_column |-> "timestamp",
     columns |-> [c \in DOMAIN df.cols \cup {"timestamp"} |->
                    IF c = "timestamp" THEN df.index ELSE df.cols[c]]]

\* pd.read_parquet: the index column named in the metadata becomes the index again
read_parquet(file) ==
    DataFrame(file.columns[file.index_column],
              [c \in DOMAIN file.columns \ {file.index_column} |-> file.columns[c]])

Ok(v) == [exc |-> "None", value |-> v]

Err(exc) == [exc |-> exc, value |-> None]

\* _load_from_cache that treats every entry as expired
load_from_cache_expired(files, filename) == Ok(None)

\* BaseDataLoader._load_from_cache on the cache directory files
_load_from_cache(files, filename) ==
    LET file == files[filepath(filename)]
    IN  IF file.kind = "absent" THEN Ok(None)
        ELSE IF file.kind = "corrupt" THEN Err("CacheError")
        ELSE Ok(read_parquet(file))

\* BaseDataLoader._save_to_cache: the outcome and the cache directory afterwards
_save_to_cache(files, df, filename) ==
    IF write_ok[filepath(filename)]
    THEN [exc |-> "None", files |-> [files EXCEPT ![filepath(filename)] = to_parquet(df)]]
    ELSE [exc |-> "CacheError", files |-> files]

----------------------------------------------------------------------------
(* The provider: BinanceDataLoader over the Binance client *)

Kline(ts, open, volume) ==
    [timestamp |-> ts, open |-> open, high |-> Num(1), low |-> Num(1),
     close |-> Num(1), volume |-> volume]

\* client.get_historical_klines raises
KlinesFailure == [kind |-> "raises", rows |-> <<>>]

Klines(rows) == [kind |-> "klines", rows |-> rows]

\* two good rows and one whose open price does not parse
GoodKlines == Klines(<<Kline(1, Num(1), Num(1)), Kline(2, Str, Num(1)), Kline(3, Num(1), Num(1))>>)

\* a row with a negative volume
NegativeKlines == Klines(<<Kline(1, Num(1), Num(1)), Kline(2, Num(1), Num(-1))>>)

KlinesAnswers == {KlinesFailure, Klines(<<>>), GoodKlines, NegativeKlines}

\* pd.to_numeric(errors='coerce')
to_numeric(cell) == IF cell.kind = "num" THEN cell ELSE NaN

\* df.dropna(): the rows without a missing value
dropna(rows) ==
    SelectSeq(rows, LAMBDA r : \A c \in required_columns : to_numeric(r[c]) # NaN)

\* BinanceDataLoader._process_klines
_process_klines(klines, symbol) ==
    LET rows == dropna(klines)
    IN  IF rows = <<>> THEN Err("DataValidationError")
        ELSE Ok(DataFrame([i \in DOMAIN rows |-> rows[i].timestamp],
                          [c \in required_columns \cup {"symbol"} |->
                              [i \in DOMAIN rows |->
                                  IF c = "symbol" THEN Str ELSE to_numeric(rows[i][c])]]))

\* BinanceDataLoader.fetch_ohlcv with self.client in state cl
fetch_ohlcv(cl, symbol) ==
    IF cl # "open" \/ provider[symbol].kind = "raises" THEN Err("NetworkError")
    ELSE IF provider[symbol].rows = <<>> THEN Err("DataValidationError")
    ELSE _process_klines(provider[symbol].rows, symbol)

Ticker(symbol, quoteVolume) == [symbol |-> symbol, quoteVolume |-> quoteVolume]

\* client.get_ticker raises
TickerFailure == [kind |-> "raises", rows |-> <<>>]

TickerFeed(rows) == [kind |-> "tickers", rows |-> rows]

TickerFeeds ==
    {TickerFailure,
     TickerFeed(<<Ticker(BTCUSDT, 9)>>),
     TickerFeed(<<Ticker(ETHBTC, 5), Ticker(BTCUSDT, 9), Ticker(LTCBTC, 7)>>)}

\* str.endswith
endswith(str, suffix) ==
    /\ Len(suffix) <= Len(str)
    /\ SubSeq(str, Len(str) - Len(suffix) + 1, Len(str)) = suffix

\* sorted(relevant, key=lambda x: x[1], reverse=True): stable, largest first
RECURSIVE sorted_reverse(_)
sorted_reverse(pairs) ==
    IF pairs = <<>> THEN <<>>
    ELSE LET rest == sorted_reverse(Tail(pairs))
             before == SelectSeq(rest, LAMBDA p : p.quoteVolume > Head(pairs).quoteVolume)
             after == SelectSeq(rest, LAMBDA p : p.quoteVolume <= Head(pairs).quoteVolume)
         IN  before \o <<Head(pairs)>> \o after

\* the try block of BinanceDataLoader.get_top_liquid_pairs
liquid_pairs_try(feed, base, limit) ==
    IF feed.kind = "raises" THEN Err("Exception")
    ELSE LET relevant == SelectSeq(feed.rows, LAMBDA t : endswith(t.symbol, base))
             sorted_pairs == sorted_reverse(relevant)
             top == SubSeq(sorted_pairs, 1, IF Len(sorted_pairs) < limit THEN Len(sorted_pairs) ELSE limit)
             pairs == [i \in DOMAIN top |-> top[i].symbol]
         IN  IF pairs = <<>> THEN Err("DataValidationError") ELSE Ok(pairs)

\* BinanceDataLoader.get_top_liquid_pairs: `except Exception` turns every failure into NetworkError
get_top_liquid_pairs(feed, base, limit) ==
    LET r == liquid_pairs_try(feed, base, limit)
    IN  IF r.exc # "None" THEN Err("NetworkError") ELSE r

----------------------------------------------------------------------------
(* The state after construction *)

\* a good cached series (one bar), unlike any series the provider returns
CachedFrame == FrameWith(<<1>>, required_columns \cup {"symbol"}, {})

\* a cached series with a negative volume
CachedNegative ==
    FrameWith(<<1>>, required_columns \cup {"symbol"}, {[col |-> "volume", row |-> 1, val |-> Num(-1)]})

\* a cached series whose open column holds strings
CachedStrings ==
    FrameWith(<<1>>, required_columns \cup {"symbol"}, {[col |-> "open", row |-> 1, val |-> Str]})

CacheContents ==
    {Absent, Corrupt, to_parquet(CachedFrame), to_parquet(CachedNegative), to_parquet(CachedStrings)}

SymbolLists == UNION {[1..n -> ConfiguredSymbols] : n \in 0..MaxSymbols}

PairsLimits == {1, 100}

NoResult == [kind |-> "none", exc |-> "None", msg |-> "", value |-> <<>>]

Returned(d) == [kind |-> "returned", exc |-> "None", msg |-> "", value |-> d]

Raised(exc, msg) == [kind |-> "raised", exc |-> exc, msg |-> msg, value |-> <<>>]

\* asyncio.create_task(self._load_symbol_data(symbol))
NewTask(symbol) ==
    [symbol |-> symbol, pc |-> "created", exc |-> "None", value |-> None,
     cache_reads |-> 0, fetch_calls |-> 0, cache_writes |-> 0]

\* the symbols the run will load: the configured ones, or the ones the liquidity query finds
WillLoad(syms, ctxm, feed, limit) ==
    LET found == get_top_liquid_pairs(feed, base_asset, limit)
    IN  IF syms # <<>> THEN Range(syms)
        ELSE IF ctxm /\ found.exc = "None" THEN Range(found.value)
        ELSE {}

PipelineInit ==
    /\ symbols \in SymbolLists
    /\ use_ctx \in BOOLEAN
    /\ tickers \in (IF use_ctx /\ symbols = <<>> THEN TickerFeeds ELSE {TickerFailure})
    /\ pairs_limit \in (IF use_ctx /\ symbols = <<>> THEN PairsLimits ELSE {100})
    /\ LET load == WillLoad(symbols, use_ctx, tickers, pairs_limit)
           files == {filepath(_generate_cache_filename(s)) : s \in load}
       IN  /\ provider \in {[s \in AllSymbols |-> IF s \in load /\ use_ctx THEN f[s] ELSE KlinesFailure] :
                               f \in [load -> KlinesAnswers]}
           /\ write_ok \in {[p \in CacheFiles |-> IF p \in files /\ use_ctx THEN f[p] ELSE TRUE] :
                               f \in [files -> BOOLEAN]}
           /\ cache \in {[p \in CacheFiles |-> IF p \in files THEN f[p] ELSE Absent] :
                               f \in [files -> CacheContents]}
    /\ client = "None"
    /\ created = 0
    /\ closed = 0
    /\ ctx = "new"
    /\ tasks = <<>>
    /\ pos = 0
    /\ data = <<>>
    /\ result = NoResult

\* the cache-key specification has not started
NoKeys == [state |-> "none"]

Init ==
    /\ PipelineInit
    /\ vdf = DataFrame(<<>>, <<>>)
    /\ vres = NotValidated
    /\ kq = NoKeys
    /\ cache0 = cache

----------------------------------------------------------------------------
(* BaseDataLoader._load_symbol_data, one asyncio task per symbol *)

Done(t, exc, value) == [t EXCEPT !.pc = "done", !.exc = exc, !.value = value]

\* the call of fetch_ohlcv: without an open client it raises at once, else the task waits for the answer
begin_fetch(t, cl) ==
    LET called == [t EXCEPT !.fetch_calls = @ + 1]
    IN  IF cl # "open" THEN Done(called, fetch_ohlcv(cl, t.symbol).exc, None)
        ELSE [called EXCEPT !.pc = "fetching"]

\* load_symbol_begin that does not look at what the cache read returned
load_symbol_begin_ignore_cache(t, files, cl) ==
    begin_fetch([t EXCEPT !.cache_reads = @ + 1], cl)

\* load_symbol_begin without the validation of the cached series
load_symbol_begin_trust_cache(t, files, cl) ==
    LET filename == _generate_cache_filename(t.symbol)
        cached_data == _load_from_cache(files, filename)
        read == [t EXCEPT !.cache_reads = @ + 1]
    IN  IF cached_data.exc = "CacheError" THEN begin_fetch(read, cl)
        ELSE IF cached_data.value = None THEN begin_fetch(read, cl)
        ELSE Done(read, "None", cached_data.value)

\* from the start of the coroutine to its first await: the cache read and its validation
load_symbol_begin(t, files, cl) ==
    LET filename == _generate_cache_filename(t.symbol)
        cached_data == _load_from_cache(files, filename)
        read == [t EXCEPT !.cache_reads = @ + 1]
    IN  IF cached_data.exc = "CacheError" THEN begin_fetch(read, cl)
        ELSE IF cached_data.value = None THEN begin_fetch(read, cl)
        ELSE LET checked == _validate_data(cached_data.value)
             IN  IF checked.exc = "None" THEN Done(read, "None", cached_data.value)
                 ELSE Done(read, checked.exc, None)

\* load_symbol_resume without the `except CacheError` around the cache write
load_symbol_resume_write_error_raised(t, files, cl) ==
    LET filename == _generate_cache_filename(t.symbol)
        fresh_data == fetch_ohlcv(cl, t.symbol)
        checked == _validate_data(fresh_data.value)
        saved == _save_to_cache(files, fresh_data.value, filename)
    IN  IF fresh_data.exc # "None" THEN [task |-> Done(t, fresh_data.exc, None), files |-> files]
        ELSE IF checked.exc # "None" THEN [task |-> Done(t, checked.exc, None), files |-> files]
        ELSE IF saved.exc # "None"
            THEN [task |-> Done([t EXCEPT !.cache_writes = @ + 1], saved.exc, None), files |-> files]
        ELSE [task |-> Done([t EXCEPT !.cache_writes = @ + 1], "None", fresh_data.value),
              files |-> saved.files]

\* load_symbol_resume with the cache write placed before the validation
load_symbol_resume_save_before_validate(t, files, cl) ==
    LET filename == _generate_cache_filename(t.symbol)
        fresh_data == fetch_ohlcv(cl, t.symbol)
        checked == _validate_data(fresh_data.value)
        saved == _save_to_cache(files, fresh_data.value, filename)
    IN  IF fresh_data.exc # "None" THEN [task |-> Done(t, fresh_data.exc, None), files |-> files]
        ELSE IF checked.exc # "None"
            THEN [task |-> Done([t EXCEPT !.cache_writes = @ + 1], checked.exc, None), files |-> saved.files]
        ELSE [task |-> Done([t EXCEPT !.cache_writes = @ + 1], "None", fresh_data.value),
              files |-> saved.files]

\* from the answer of fetch_ohlcv to the end: validation, cache write, return
load_symbol_resume(t, files, cl) ==
    LET filename == _generate_cache_filename(t.symbol)
        fresh_data == fetch_ohlcv(cl, t.symbol)
        checked == _validate_data(fresh_data.value)
        saved == _save_to_cache(files, fresh_data.value, filename)
    IN  IF fresh_data.exc # "None" THEN [task |-> Done(t, fresh_data.exc, None), files |-> files]
        ELSE IF checked.exc # "None" THEN [task |-> Done(t, checked.exc, None), files |-> files]
        ELSE [task |-> Done([t EXCEPT !.cache_writes = @ + 1], "None", fresh_data.value),
              files |-> saved.files]

----------------------------------------------------------------------------
(* BaseDataLoader.load_historical_data *)

\* exceptions.py: the subclasses of DataLoaderError
is_DataLoaderError(exc) ==
    exc \in {"DataLoaderError", "NetworkError", "DataValidationError", "CacheError"}

\* the keys of the dict `tasks`, in insertion order
task_keys(syms) ==
    LET keys[i \in 0..Len(syms)] ==
            IF i = 0 THEN <<>>
            ELSE IF syms[i] \in Range(keys[i - 1]) THEN keys[i - 1]
            ELSE Append(keys[i - 1], syms[i])
    IN  keys[Len(syms)]

\* tasks[symbol]: the task created last for the symbol
task_of(syms, symbol) ==
    CHOOSE i \in DOMAIN syms : syms[i] = symbol /\ \A j \in DOMAIN syms : j > i => syms[j] # symbol

\* on_awaited with the assignment to data outside the try statement's success path
on_awaited_insert_always(exc) == "insert"

\* on_awaited without the `except Exception` clause
on_awaited_propagate_unexpected(exc) ==
    IF exc = "None" THEN "insert"
    ELSE IF is_DataLoaderError(exc) THEN "continue"
    ELSE "raise"

\* what the try statement around `await task` does with the task's outcome
on_awaited(exc) ==
    IF exc = "None" THEN "insert"
    ELSE IF is_DataLoaderError(exc) THEN "continue"
    ELSE "log"

\* finish without the `if not data` check
finish_never_raises(d) == Returned(d)

\* the statements after the loop
finish(d) ==
    IF DOMAIN d = {} THEN Raised("DataLoaderError", "No valid data loaded for any symbol")
    ELSE Returned(d)

\* the empty check answering with an empty mapping
on_no_symbols_return_empty == Returned(<<>>)

\* `if not self.symbols`
on_no_symbols == Raised("DataLoaderError", "No symbols configured")

\* the call, up to the first await: the empty check and the creation of the tasks
Load ==
    /\ \/ use_ctx /\ ctx = "body"
       \/ ~use_ctx /\ ctx = "new"
    /\ IF symbols = <<>>
       THEN /\ result' = on_no_symbols
            /\ ctx' = on_no_symbols.kind
            /\ UNCHANGED <<tasks, pos>>
       ELSE /\ tasks' = [i \in DOMAIN symbols |-> NewTask(symbols[i])]
            /\ pos' = 1
            /\ ctx' = "loading"
            /\ UNCHANGED result
    /\ UNCHANGED <<symbols, pairs_limit, use_ctx, tickers, provider, write_ok, cache, client,
                   created, closed, data, vdf, vres, kq, cache0>>

\* a task runs from its start to its first await; tasks start in creation order
StartTask(i) ==
    /\ ctx = "loading"
    /\ tasks[i].pc = "created"
    /\ \A j \in 1..(i - 1) : tasks[j].pc # "created"
    /\ tasks' = [tasks EXCEPT ![i] = load_symbol_begin(tasks[i], cache, client)]
    /\ UNCHANGED <<symbols, pairs_limit, use_ctx, tickers, provider, write_ok, cache, client,
                   created, closed, ctx, pos, data, result, vdf, vres, kq, cache0>>

\* every task has run to its first await: the event loop runs the tasks made ready by
\* create_task before it polls I/O or resumes the awaiting coroutine
AllStarted == \A j \in DOMAIN tasks : tasks[j].pc # "created"

\* fetch_ohlcv answers and the task runs to its end
ResumeTask(i) ==
    /\ tasks[i].pc = "fetching"
    /\ AllStarted
    /\ LET after == load_symbol_resume(tasks[i], cache, client)
       IN  /\ tasks' = [tasks EXCEPT ![i] = after.task]
           /\ cache' = after.files
    /\ UNCHANGED <<symbols, pairs_limit, use_ctx, tickers, provider, write_ok, client,
                   created, closed, ctx, pos, data, result, vdf, vres, kq, cache0>>

\* `await task` returns or raises for the next key of the tasks dict; an outcome that
\* no except clause handles ("raise") would leave load_historical_data at once
Collect ==
    /\ ctx = "loading"
    /\ LET keys == task_keys(symbols)
           symbol == keys[pos]
           task == tasks[task_of(symbols, symbol)]
           handled == on_awaited(task.exc)
           d == IF handled = "insert" THEN (symbol :> task.value) @@ data ELSE data
       IN  /\ AllStarted
           /\ task.pc = "done"
           /\ data' = d
           /\ pos' = pos + 1
           /\ IF handled = "raise"
              THEN result' = Raised(task.exc, "") /\ ctx' = "raised"
              ELSE IF pos = Len(keys)
              THEN result' = finish(d) /\ ctx' = finish(d).kind
              ELSE UNCHANGED <<result, ctx>>
    /\ UNCHANGED <<symbols, pairs_limit, use_ctx, tickers, provider, write_ok, cache, client,
                   created, closed, tasks, vdf, vres, kq, cache0>>

----------------------------------------------------------------------------
(* BinanceDataLoader.__aenter__ / __aexit__ around the body of fetch_price_data *)

\* __aenter__ that runs the liquidity query whether or not symbols are configured
AEnter_always_queries ==
    /\ use_ctx
    /\ ctx = "new"
    /\ \E connected \in BOOLEAN :
        IF connected
        THEN /\ client' = "open"
             /\ created' = created + 1
             /\ ctx' = "querying"
        ELSE /\ ctx' = "enter_failed"
             /\ UNCHANGED <<client, created>>
    /\ UNCHANGED <<symbols, pairs_limit, tickers, use_ctx, provider, write_ok, cache, closed,
                   tasks, pos, data, result, vdf, vres, kq, cache0>>

\* __aenter__ up to the end of AsyncClient.create, which returns a client or raises
AEnter ==
    /\ use_ctx
    /\ ctx = "new"
    /\ \E connected \in BOOLEAN :
        IF connected
        THEN /\ client' = "open"
             /\ created' = created + 1
             /\ ctx' = IF symbols = <<>> THEN "querying" ELSE "body"
        ELSE /\ ctx' = "enter_failed"
             /\ UNCHANGED <<client, created>>
    /\ UNCHANGED <<symbols, pairs_limit, tickers, use_ctx, provider, write_ok, cache, closed,
                   tasks, pos, data, result, vdf, vres, kq, cache0>>

\* the rest of __aenter__ when no symbols are configured: the liquidity query.
\* When it raises, __aenter__ raises and Python does not call __aexit__.
AEnterQuery ==
    /\ ctx = "querying"
    /\ LET found == get_top_liquid_pairs(tickers, base_asset, pairs_limit)
       IN  IF found.exc = "None"
           THEN symbols' = found.value /\ ctx' = "body"
           ELSE ctx' = "enter_failed" /\ UNCHANGED symbols
    /\ UNCHANGED <<pairs_limit, use_ctx, tickers, provider, write_ok, cache, client, created,
                   closed, tasks, pos, data, result, vdf, vres, kq, cache0>>

\* __aexit__, once the body has returned or raised
AExit ==
    /\ use_ctx
    /\ ctx \in {"returned", "raised"}
    /\ IF client # "None"
       THEN client' = "closed" /\ closed' = closed + 1
       ELSE UNCHANGED <<client, closed>>
    /\ ctx' = "exited"
    /\ UNCHANGED <<symbols, pairs_limit, use_ctx, tickers, provider, write_ok, cache, created,
                   tasks, pos, data, result, vdf, vres, kq, cache0>>

Next ==
    \/ AEnter
    \/ AEnterQuery
    \/ Load
    \/ \E i \in DOMAIN tasks : StartTask(i)
    \/ \E i \in DOMAIN tasks : ResumeTask(i)
    \/ Collect
    \/ AExit

Spec == Init /\ [][Next]_vars

----------------------------------------------------------------------------
(* Later runs of the program on the same cache directory *)

\* the symbols argument of the loader: a list found by the liquidity query was not configured
configured_symbols ==
    IF \A i \in DOMAIN symbols : symbols[i] \in ConfiguredSymbols THEN symbols ELSE <<>>

\* the caller is done with the loader and no task is left running
ProgramOver ==
    /\ IF use_ctx THEN ctx \in {"exited", "enter_failed"} ELSE ctx \in {"returned", "raised"}
    /\ \A i \in DOMAIN tasks : tasks[i].pc = "done"

\* the program is run again: a new loader with the same arguments, the cache files as they are
NewRun ==
    /\ ProgramOver
    /\ symbols' = configured_symbols
    /\ client' = "None"
    /\ created' = 0
    /\ closed' = 0
    /\ ctx' = "new"
    /\ tasks' = <<>>
    /\ pos' = 0
    /\ data' = <<>>
    /\ result' = NoResult
    /\ cache0' = cache
    /\ UNCHANGED <<pairs_limit, use_ctx, tickers, provider, write_ok, cache, vdf, vres, kq>>

NextRuns == Next \/ NewRun

SpecRuns == Init /\ [][NextRuns]_vars

----------------------------------------------------------------------------
(* The validation specification *)

InitValidate ==
    /\ symbols = <<>>
    /\ use_ctx = FALSE
    /\ tickers = TickerFailure
    /\ pairs_limit = 100
    /\ provider = [s \in AllSymbols |-> KlinesFailure]
    /\ write_ok = [p \in CacheFiles |-> TRUE]
    /\ cache = [p \in CacheFiles |-> Absent]
    /\ client = "None"
    /\ created = 0
    /\ closed = 0
    /\ ctx = "new"
    /\ tasks = <<>>
    /\ pos = 0
    /\ data = <<>>
    /\ result = NoResult
    /\ \E index \in Indexes, colset \in ColumnSets :
        \E defects \in Defects(index, colset) : vdf = FrameWith(index, colset, defects)
    /\ vres = NotValidated
    /\ kq = NoKeys
    /\ cache0 = cache

\* the validated series is written to the cache under the key of a symbol
PutToCache(symbol) ==
    /\ vres = Pass
    /\ LET saved == _save_to_cache(cache, vdf, _generate_cache_filename(symbol))
       IN  saved.exc = "None" /\ cache' = saved.files
    /\ UNCHANGED <<symbols, pairs_limit, use_ctx, tickers, provider, write_ok, client,
                   created, closed, ctx, tasks, pos, data, result, vdf, vres, kq, cache0>>

NextValidate ==
    \/ Validate
    \/ \E symbol \in AllSymbols : PutToCache(symbol)

SpecValidate == InitValidate /\ [][NextValidate]_vars

----------------------------------------------------------------------------
(* The cache-key specification: two loaders, each addressing the entry of one symbol *)

\* BTCUSDT, ETHUSDT and a symbol with an underscore in its name, "BTCUSDT_1m"
KeySymbols == {BTCUSDT, ETHUSDT, <<"BTC", "USDT", "_", "1m">>}

\* "1m", "1h" and a timeframe string with an underscore, "1m_1h"
KeyTimeframes == {timeframe, <<"1h">>, <<"1m", "_", "1h">>}

KeyBaseAssets == {base_asset, <<"USDT">>}

KeyApiKeys == {"None", "key"}

KeyCacheDirs == {cache_dir, <<"cache">>}

\* the arguments of BinanceDataLoader.__init__ that the cache can depend on, and the symbol
Acquisitions ==
    [symbol : KeySymbols, timeframe : KeyTimeframes, start_date : {start_date},
     end_date : {end_date}, base_asset : KeyBaseAssets, pairs_limit : PairsLimits,
     api_key : KeyApiKeys, testnet : BOOLEAN, cache_dir : KeyCacheDirs]

\* the file _load_from_cache and _save_to_cache address for an acquisition
resolve(acq) ==
    LET filename == generate_cache_filename(acq, acq.symbol)
    IN  [filename |-> filename, filepath |-> cache_filepath(acq, filename)]

InitKey ==
    /\ symbols = <<>>
    /\ use_ctx = FALSE
    /\ tickers = TickerFailure
    /\ pairs_limit = 100
    /\ provider = [s \in AllSymbols |-> KlinesFailure]
    /\ write_ok = [p \in CacheFiles |-> TRUE]
    /\ cache = [p \in CacheFiles |-> Absent]
    /\ client = "None"
    /\ created = 0
    /\ closed = 0
    /\ ctx = "new"
    /\ tasks = <<>>
    /\ pos = 0
    /\ data = <<>>
    /\ result = NoResult
    /\ vdf = DataFrame(<<>>, <<>>)
    /\ vres = NotValidated
    /\ \E a, b \in Acquisitions : kq = [state |-> "configured", a |-> a, b |-> b]
    /\ cache0 = cache

ResolveKeys ==
    /\ kq.state = "configured"
    /\ kq' = [state |-> "resolved", a |-> kq.a, b |-> kq.b,
              entry_a |-> resolve(kq.a), entry_b |-> resolve(kq.b)]
    /\ UNCHANGED <<vdf, vres, cache0, pipeline_vars>>

NextKey == ResolveKeys

SpecKey == InitKey /\ [][NextKey]_vars

----------------------------------------------------------------------------
(* Properties of the validator *)

\* the series has a bar
NonEmpty(df) == Len(df.index) > 0

\* every bar has a value in each of the five numeric fields
NoMissingField(df) ==
    \A c \in required_columns :
        /\ c \in DOMAIN df.cols
        /\ \A i \in DOMAIN df.index : df.cols[c][i] # NaN

\* no open/high/low/close/volume value is below zero
NoNegativeField(df) ==
    \A c \in required_columns : \A i \in DOMAIN df.index :
        df.cols[c][i].kind = "num" => df.cols[c][i].val >= 0

UniqueTimestamps(df) ==
    Cardinality(Range(df.index)) = Len(df.index)

StrictlyIncreasingTimestamps(df) ==
    \A i \in DOMAIN df.index : i > 1 => df.index[i - 1] < df.index[i]

\* C10 as stated: every series on which _validate_data returns without raising is
\* non-empty, has no missing numeric field and no negative open/high/low/close/volume
\* value, and its timestamps are unique and strictly increasing.
C10_AsStated ==
    vres = Pass =>
        /\ NonEmpty(vdf)
        /\ NoMissingField(vdf)
        /\ NoNegativeField(vdf)
        /\ UniqueTimestamps(vdf)
        /\ StrictlyIncreasingTimestamps(vdf)

\* C10 amended: every series on which _validate_data returns without raising is
\* non-empty, has no missing numeric field and no negative open/high/low/close/volume
\* value, and its timestamps are unique (their order is not checked).
C10_ValidatedSeries ==
    vres = Pass =>
        /\ NonEmpty(vdf)
        /\ NoMissingField(vdf)
        /\ NoNegativeField(vdf)
        /\ UniqueTimestamps(vdf)

\* a series of two bars has passed the validator
C10_Witness == vres = Pass /\ Len(vdf.index) >= 2

----------------------------------------------------------------------------
(* Properties of the per-symbol pipeline, _load_symbol_data *)

file_of(symbol) == filepath(_generate_cache_filename(symbol))

EntryAbsent(files, symbol) == files[file_of(symbol)].kind = "absent"

\* the cache read raises CacheError
EntryUnreadable(files, symbol) == files[file_of(symbol)].kind = "corrupt"

\* the cache holds a series, and it passes validation
EntryValid(files, symbol) ==
    /\ files[file_of(symbol)].kind = "parquet"
    /\ _validate_data(read_parquet(files[file_of(symbol)])).exc = "None"

\* the cache holds a series, and validation rejects it with DataValidationError
EntryInvalid(files, symbol) ==
    /\ files[file_of(symbol)].kind = "parquet"
    /\ _validate_data(read_parquet(files[file_of(symbol)])).exc = "DataValidationError"

\* the provider answers with a series that passes validation
ProviderValid(symbol) ==
    /\ fetch_ohlcv("open", symbol).exc = "None"
    /\ _validate_data(fetch_ohlcv("open", symbol).value).exc = "None"

\* this step runs task i from its creation to its first await (or its end)
Begins(i) == tasks[i].pc = "created" /\ tasks'[i].pc # "created"

\* this step runs task i from the provider's answer to its end
Resumes(i) == tasks[i].pc = "fetching" /\ tasks'[i].pc = "done"

\* C1: a task that finds a valid cache entry for its key returns the cached series,
\* never calls fetch_ohlcv and writes nothing to the cache; a finished task does
\* nothing more.
C1_CacheHitShortCircuit ==
    [][\A i \in DOMAIN tasks :
        /\ (Begins(i) /\ EntryValid(cache, tasks[i].symbol)) =>
              /\ tasks'[i].pc = "done"
              /\ tasks'[i].exc = "None"
              /\ tasks'[i].value = read_parquet(cache[file_of(tasks[i].symbol)])
              /\ tasks'[i].fetch_calls = 0
              /\ tasks'[i].cache_writes = 0
              /\ cache' = cache
        /\ tasks[i].pc = "done" => tasks'[i] = tasks[i]]_vars

\* a task has returned the cached series without a call of the provider
C1_Witness ==
    \E i \in DOMAIN tasks :
        /\ tasks[i].pc = "done"
        /\ tasks[i].exc = "None"
        /\ tasks[i].value = CachedFrame
        /\ tasks[i].fetch_calls = 0
        /\ cache[file_of(tasks[i].symbol)] = to_parquet(CachedFrame)

\* C2 as stated: a task that reads from the cache a series that fails validation does
\* not end with that validation's exception: it goes on to call fetch_ohlcv.
C2_InvalidEntryIsAMiss ==
    [][\A i \in DOMAIN tasks :
        (Begins(i) /\ EntryInvalid(cache, tasks[i].symbol)) =>
            /\ tasks'[i].fetch_calls = 1
            /\ tasks'[i] = load_symbol_begin(tasks[i], [cache EXCEPT ![file_of(tasks[i].symbol)] = Absent], client)]_vars

\* C3 as stated: when the cache entry is absent or invalid and the provider returns a
\* valid series, the task returns exactly that series, and a cache read for the same
\* key afterwards returns a series equal to it.
C3_FetchedReturnedAndCached ==
    [][\A i \in DOMAIN tasks :
        /\ ( /\ Begins(i)
             /\ EntryAbsent(cache, tasks[i].symbol) \/ EntryInvalid(cache, tasks[i].symbol)
             /\ client = "open"
             /\ ProviderValid(tasks[i].symbol) ) => tasks'[i].pc = "fetching"
        /\ (Resumes(i) /\ client = "open" /\ ProviderValid(tasks[i].symbol)) =>
              /\ tasks'[i].exc = "None"
              /\ tasks'[i].value = fetch_ohlcv("open", tasks[i].symbol).value
              /\ _load_from_cache(cache', _generate_cache_filename(tasks[i].symbol)) = Ok(tasks'[i].value)]_vars

\* C7: no task ends with CacheError; a cache read that raises CacheError has the outcome
\* of a cache miss (the provider is called); a cache write that raises CacheError after a
\* fetch that passed validation leaves the cache as it was and the task still returns
\* the fetched series.
C7_CacheErrorAbsorbed ==
    [][\A i \in DOMAIN tasks :
        /\ DOMAIN tasks' = DOMAIN tasks => tasks'[i].exc # "CacheError"
        /\ (Begins(i) /\ EntryUnreadable(cache, tasks[i].symbol)) =>
              /\ tasks'[i].fetch_calls = 1
              /\ tasks'[i] = load_symbol_begin(tasks[i], [cache EXCEPT ![file_of(tasks[i].symbol)] = Absent], client)
        /\ ( /\ Resumes(i)
             /\ fetch_ohlcv(client, tasks[i].symbol).exc = "None"
             /\ _validate_data(fetch_ohlcv(client, tasks[i].symbol).value).exc = "None"
             /\ ~write_ok[file_of(tasks[i].symbol)] ) =>
              /\ tasks'[i].exc = "None"
              /\ tasks'[i].value = fetch_ohlcv(client, tasks[i].symbol).value
              /\ cache' = cache]_vars

\* a task whose cache read and cache write both raised CacheError has returned the
\* fetched series
C7_Witness ==
    \E i \in DOMAIN tasks :
        /\ tasks[i].pc = "done"
        /\ tasks[i].exc = "None"
        /\ tasks[i].cache_writes = 1
        /\ tasks[i].value = fetch_ohlcv("open", tasks[i].symbol).value
        /\ ~write_ok[file_of(tasks[i].symbol)]
        /\ EntryUnreadable(cache, tasks[i].symbol)

----------------------------------------------------------------------------
(* Properties of the orchestrator, load_historical_data *)

\* load_historical_data has returned or raised
Finished == result.kind # "none"

Failed(i) == tasks[i].pc = "done" /\ tasks[i].exc # "None"

Succeeded(i) == tasks[i].pc = "done" /\ tasks[i].exc = "None"

\* the task load_historical_data awaits for a symbol
Awaited(symbol) == task_of(symbols, symbol)

\* C4 as stated: when M < N of the N acquisitions of a list of N symbols fail and the
\* rest succeed, load_historical_data returns a mapping of exactly N - M entries, keyed
\* by the symbols whose acquisition did not raise, each with the series it returned.
C4_AsStated ==
    LET N == Len(symbols)
        M == Cardinality({i \in DOMAIN tasks : Failed(i)})
    IN  ( /\ Finished
          /\ tasks # <<>>
          /\ \A i \in DOMAIN tasks : tasks[i].pc = "done"
          /\ M < N ) =>
            /\ result.kind = "returned"
            /\ Cardinality(DOMAIN result.value) = N - M
            /\ DOMAIN result.value = {tasks[i].symbol : i \in {j \in DOMAIN tasks : Succeeded(j)}}
            /\ \A i \in DOMAIN tasks : Succeeded(i) => result.value[tasks[i].symbol] = tasks[i].value

\* C4 amended: N counts the distinct symbols of the list and M those whose awaited
\* acquisition (the last task created for the symbol) failed; when M < N the call
\* returns a mapping of exactly N - M entries, keyed by the symbols whose awaited
\* acquisition did not raise, each with the series it returned.
C4_PartialFailure ==
    LET keys == Range(task_keys(symbols))
        failed == {k \in keys : Failed(Awaited(k))}
        N == Cardinality(keys)
        M == Cardinality(failed)
    IN  (Finished /\ tasks # <<>> /\ M < N) =>
            /\ result.kind = "returned"
            /\ result.exc = "None"
            /\ Cardinality(DOMAIN result.value) = N - M
            /\ DOMAIN result.value = keys \ failed
            /\ \A k \in keys \ failed :
                  Succeeded(Awaited(k)) /\ result.value[k] = tasks[Awaited(k)].value

\* of two distinct symbols one has failed and the other is the only entry returned
C4_Witness ==
    /\ result.kind = "returned"
    /\ Cardinality(Range(symbols)) = 2
    /\ Cardinality(DOMAIN result.value) = 1
    /\ \E k \in Range(symbols) : Failed(Awaited(k)) /\ tasks[Awaited(k)].exc = "NetworkError"

\* C5: for a non-empty symbol list, load_historical_data raises DataLoaderError and
\* returns no mapping when every awaited acquisition failed, and only then.
C5_TotalFailure ==
    (Finished /\ tasks # <<>>) =>
        /\ (\A k \in Range(symbols) : Failed(Awaited(k))) =>
              /\ result.kind = "raised"
              /\ result.exc = "DataLoaderError"
              /\ result.value = <<>>
        /\ result.kind = "raised" =>
              /\ result.exc = "DataLoaderError"
              /\ \A k \in Range(symbols) : Failed(Awaited(k))
              /\ DOMAIN data = {}

\* both acquisitions of a two-symbol list have failed and the call has raised
C5_Witness ==
    /\ result.kind = "raised"
    /\ result.exc = "DataLoaderError"
    /\ Cardinality(Range(symbols)) = 2
    /\ \A i \in DOMAIN tasks : Failed(i)

\* C6: with an empty symbol list load_historical_data raises DataLoaderError; no step
\* taken while the list is empty creates a task or changes the cache (provider calls
\* and cache accesses happen only inside tasks).
C6_EmptyInput ==
    [][(symbols = <<>> /\ symbols' = <<>>) =>
          /\ tasks' = <<>>
          /\ cache' = cache
          /\ result' # NoResult =>
                /\ result'.kind = "raised"
                /\ result'.exc = "DataLoaderError"
                /\ result'.value = <<>>]_vars

\* load_historical_data has raised on an empty symbol list
C6_Witness ==
    /\ symbols = <<>>
    /\ result.kind = "raised"
    /\ tasks = <<>>

\* C8: when some task has failed, with a DataLoaderError subtype or any other
\* exception, load_historical_data still ends only after every awaited task is done,
\* no task's exception leaves it, and every awaited task that succeeded has its series
\* in the returned mapping.
C8_FailureIsolation ==
    (Finished /\ \E i \in DOMAIN tasks : Failed(i)) =>
        /\ result.exc \in {"None", "DataLoaderError"}
        /\ result.kind = "raised" => result.msg = "No valid data loaded for any symbol"
        /\ \A k \in Range(symbols) :
              /\ tasks[Awaited(k)].pc = "done"
              /\ Succeeded(Awaited(k)) =>
                    /\ result.kind = "returned"
                    /\ k \in DOMAIN result.value
                    /\ result.value[k] = tasks[Awaited(k)].value

\* one task has failed with an exception that is no DataLoaderError, and the
\* other symbol's fetched series is in the returned mapping
C8_Witness ==
    /\ result.kind = "returned"
    /\ \E i, j \in DOMAIN tasks :
          /\ tasks[i].exc = "TypeError"
          /\ tasks[i].pc = "done"
          /\ Succeeded(j)
          /\ tasks[j].fetch_calls = 1
          /\ tasks[j].symbol \in DOMAIN result.value
          /\ tasks[i].symbol \notin DOMAIN result.value

----------------------------------------------------------------------------
(* Properties of the provider connection *)

\* the caller's `async with` statement has been left
RunOver == ctx \in {"exited", "enter_failed"}

\* C9 as stated: at most one client is created per run; when the run is over, on
\* every exit path, each created client has been closed exactly once; no task opens
\* or closes the client.
C9_ClientLifecycle ==
    [][/\ created' <= 1
       /\ closed' <= created'
       /\ RunOver' => closed' = created'
       /\ (\E i \in DOMAIN tasks : Begins(i) \/ Resumes(i)) => <<client, created, closed>>' = <<client, created, closed>>]_vars

----------------------------------------------------------------------------
(* Order of the validator's checks *)

\* the checks of the validator, each stated on its own; a missing column has no cells
Cells(df, c) == IF c \in DOMAIN df.cols THEN Range(df.cols[c]) ELSE {}

ViolatesNonEmpty(df) == Len(df.index) = 0 \/ DOMAIN df.cols = {}

ViolatesRequiredColumns(df) == \E c \in required_columns : c \notin DOMAIN df.cols

ViolatesNoMissing(df) == \E c \in DOMAIN df.cols : NaN \in Cells(df, c)

ViolatesNoNegative(df) ==
    \E c \in required_columns : \E cell \in Cells(df, c) : cell.kind = "num" /\ cell.val < 0

ViolatesNoDuplicates(df) == Cardinality(Range(df.index)) < Len(df.index)

ViolatesNumeric(df) ==
    \E c \in required_columns : \E cell \in Cells(df, c) : cell.kind \in {"str", "bool"}

\* the outcome the ordered, short-circuiting checks (1)..(6) prescribe
LowestViolatedCheck(df) ==
    IF ViolatesNonEmpty(df) THEN Raise("DataValidationError", "Empty DataFrame")
    ELSE IF ViolatesRequiredColumns(df) THEN Raise("DataValidationError", "Missing required columns")
    ELSE IF ViolatesNoMissing(df) THEN Raise("DataValidationError", "NaN values found")
    ELSE IF ViolatesNoNegative(df) THEN Raise("DataValidationError", "Negative values")
    ELSE IF ViolatesNoDuplicates(df) THEN Raise("DataValidationError", "Duplicate timestamps")
    ELSE IF ViolatesNumeric(df) THEN Raise("DataValidationError", "Incorrect data format")
    ELSE Pass

\* C11 as stated: the outcome of _validate_data is the DataValidationError of the
\* lowest-numbered check the series violates, in the order (1) non-empty, (2) required
\* columns, (3) no missing values, (4) no negative values, (5) no duplicate timestamps,
\* (6) numeric columns, and pass for a series that violates none.
C11_ChecksInOrder ==
    vres # NotValidated => vres = LowestViolatedCheck(vdf)

----------------------------------------------------------------------------
(* The fetch path and the validation gate of _load_symbol_data *)

\* C12: a task calls fetch_ohlcv at most once; when the call raises, the task ends
\* with that exception; when the fetched series fails validation, the task ends with
\* DataValidationError; in these cases the task writes nothing to the cache.
C12_FetchPathTerminal ==
    [][\A i \in DOMAIN tasks :
        /\ DOMAIN tasks' = DOMAIN tasks => tasks'[i].fetch_calls <= 1
        /\ (Begins(i) /\ tasks'[i].pc = "done" /\ tasks'[i].fetch_calls = 1) =>
              /\ tasks'[i].exc = fetch_ohlcv(client, tasks[i].symbol).exc
              /\ tasks'[i].exc \in {"NetworkError", "DataValidationError"}
              /\ tasks'[i].cache_writes = 0
              /\ cache' = cache
        /\ (Resumes(i) /\ fetch_ohlcv(client, tasks[i].symbol).exc # "None") =>
              /\ tasks'[i].exc = fetch_ohlcv(client, tasks[i].symbol).exc
              /\ tasks'[i].exc \in {"NetworkError", "DataValidationError"}
              /\ tasks'[i].fetch_calls = 1
              /\ tasks'[i].cache_writes = 0
              /\ cache' = cache
        /\ ( /\ Resumes(i)
             /\ fetch_ohlcv(client, tasks[i].symbol).exc = "None"
             /\ _validate_data(fetch_ohlcv(client, tasks[i].symbol).value).exc # "None" ) =>
              /\ tasks'[i].exc = "DataValidationError"
              /\ tasks'[i].fetch_calls = 1
              /\ tasks'[i].cache_writes = 0
              /\ cache' = cache]_vars

\* a task whose fetched series failed validation has ended with DataValidationError
\* after one call of the provider and without a cache write
C12_Witness ==
    \E i \in DOMAIN tasks :
        /\ tasks[i].pc = "done"
        /\ tasks[i].exc = "DataValidationError"
        /\ tasks[i].fetch_calls = 1
        /\ tasks[i].cache_writes = 0
        /\ provider[tasks[i].symbol] = NegativeKlines
        /\ client = "open"

\* the files of new that differ from those of old
Written(old, new) == {f \in DOMAIN old : new[f] # old[f]}

\* C13: every series a task returns and every series a step writes to the cache passes
\* _validate_data; so does every value of the mapping load_historical_data returns.
C13_OnlyValidatedSeries ==
    [][/\ \A i \in DOMAIN tasks' :
            (tasks'[i].pc = "done" /\ tasks'[i].exc = "None") =>
                _validate_data(tasks'[i].value) = Pass
       /\ \A f \in Written(cache, cache') :
            /\ cache'[f].kind = "parquet"
            /\ _validate_data(read_parquet(cache'[f])) = Pass
       /\ \A k \in DOMAIN result'.value : _validate_data(result'.value[k]) = Pass
       /\ \A k \in DOMAIN data' : _validate_data(data'[k]) = Pass]_vars

\* the returned mapping holds a series read from the cache and a series fetched and cached
C13_Witness ==
    /\ result.kind = "returned"
    /\ \E k, l \in DOMAIN result.value :
          /\ result.value[k] = CachedFrame
          /\ result.value[l] = fetch_ohlcv("open", l).value
          /\ cache[file_of(l)] = to_parquet(result.value[l])

----------------------------------------------------------------------------
(* Cache keys *)

SameFourTuple(a, b) ==
    /\ a.symbol = b.symbol
    /\ a.timeframe = b.timeframe
    /\ a.start_date = b.start_date
    /\ a.end_date = b.end_date

\* C14 as stated: two acquisitions with the same (symbol, timeframe, start, end) address
\* the same cache entry whatever their base asset, pairs limit, credentials, testnet flag
\* and cache location setting.
C14_AsStated ==
    (kq.state = "resolved" /\ SameFourTuple(kq.a, kq.b)) =>
        kq.entry_a.filepath = kq.entry_b.filepath

\* C14 (amended): two acquisitions with the same (symbol, timeframe, start, end) have the
\* same cache file name whatever their other parameters, and address the same file
\* exactly when their cache directories are the same.
C14_KeyDeterminism ==
    (kq.state = "resolved" /\ SameFourTuple(kq.a, kq.b)) =>
        /\ kq.entry_a.filename = kq.entry_b.filename
        /\ kq.a.cache_dir = kq.b.cache_dir <=> kq.entry_a.filepath = kq.entry_b.filepath

\* two loaders that differ in base asset, pairs limit, credentials and testnet flag,
\* with the same four-tuple and cache directory, addressed the same file
C14_Witness ==
    /\ kq.state = "resolved"
    /\ SameFourTuple(kq.a, kq.b)
    /\ kq.a.base_asset # kq.b.base_asset
    /\ kq.a.pairs_limit # kq.b.pairs_limit
    /\ kq.a.api_key # kq.b.api_key
    /\ kq.a.testnet # kq.b.testnet
    /\ kq.a.cache_dir = kq.b.cache_dir
    /\ kq.entry_a.filepath = kq.entry_b.filepath

----------------------------------------------------------------------------
(* The liquidity query *)

\* C15: get_top_liquid_pairs raises NetworkError when get_ticker fails in transport and
\* DataValidationError, not NetworkError, when no ticker passes the filter.
C15_DistinctErrorKinds ==
    (ctx = "enter_failed" /\ created = 1) =>
        LET raised == get_top_liquid_pairs(tickers, base_asset, pairs_limit).exc
        IN  /\ tickers = TickerFailure => raised = "NetworkError"
            /\ tickers # TickerFailure => raised = "DataValidationError"

----------------------------------------------------------------------------
(* The cache across acquisitions and runs *)

\* C16: no step removes or replaces a valid cache entry, every step that writes an entry
\* leaves a valid one, and every acquisition that starts on a valid entry, in this run or
\* a later one, returns the series of that entry without calling the provider.
C16_CachedResultsTrusted ==
    [][/\ \A s \in AllSymbols :
            /\ EntryValid(cache, s) => cache'[file_of(s)] = cache[file_of(s)]
            /\ cache'[file_of(s)] # cache[file_of(s)] => EntryValid(cache', s)
       /\ \A i \in DOMAIN tasks :
            (Begins(i) /\ EntryValid(cache, tasks[i].symbol)) =>
                /\ tasks'[i].pc = "done"
                /\ tasks'[i].exc = "None"
                /\ to_parquet(tasks'[i].value) = cache[file_of(tasks[i].symbol)]
                /\ tasks'[i].fetch_calls = 0]_vars

\* in a later run a task has returned, without calling the provider, the series that an
\* earlier run fetched and wrote
C16_Witness ==
    \E i \in DOMAIN tasks :
        /\ tasks[i].pc = "done"
        /\ tasks[i].exc = "None"
        /\ tasks[i].fetch_calls = 0
        /\ tasks[i].value = fetch_ohlcv("open", tasks[i].symbol).value
        /\ tasks[i].value # CachedFrame
        /\ cache[file_of(tasks[i].symbol)] = to_parquet(tasks[i].value)

----------------------------------------------------------------------------
(* The symbols of a run *)

\* C17: a configured, non-empty symbol list is never changed and the liquidity query is
\* never started for it; an empty list is filled only by the liquidity query, with
\* exactly the list get_top_liquid_pairs(base_asset, pairs_limit) returns, before any
\* task exists; the tasks are those of self.symbols, which stays as it is from then on.
C17_SymbolSetResolution ==
    [][/\ symbols # <<>> => (symbols' = symbols /\ ctx' # "querying")
       /\ (symbols = <<>> /\ symbols' # <<>>) =>
            /\ ctx = "querying"
            /\ tasks = <<>> /\ tasks' = <<>>
            /\ get_top_liquid_pairs(tickers, base_asset, pairs_limit).exc = "None"
            /\ symbols' = get_top_liquid_pairs(tickers, base_asset, pairs_limit).value
       /\ tasks' # <<>> => [i \in DOMAIN tasks' |-> tasks'[i].symbol] = symbols']_vars

\* tasks run for the two most liquid BTC pairs, which the query found
C17_Witness ==
    /\ use_ctx
    /\ symbols = <<LTCBTC, ETHBTC>>
    /\ Len(tasks) = 2
    /\ \A i \in DOMAIN tasks : tasks[i].symbol = symbols[i] /\ tasks[i].pc = "done"

----------------------------------------------------------------------------
(* Cache round trip *)

----------------------------------------------------------------------------
(* Fan-out and fan-in of load_historical_data *)

\* no symbol occurs twice in the list
Distinct(syms) == Cardinality(Range(syms)) = Len(syms)

AllDone == \A i \in DOMAIN tasks : tasks[i].pc = "done"

\* C19 as stated: for every symbol list there is one task per requested symbol, and
\* load_historical_data has returned or raised only when every task it launched is done.
C19_AsStated ==
    /\ tasks # <<>> => Len(tasks) = Len(symbols)
    /\ Finished => AllDone

\* C19 (amended): load_historical_data creates one task per element of the symbol list,
\* all in one step before it awaits any, and none later; it has returned or raised only
\* when the task it awaits for each symbol (the last one created for it) is done, and
\* until then no result is visible; for a list without repeated symbols every task is
\* done by then.
C19_FanOutFanIn ==
    [][/\ (tasks = <<>> /\ tasks' # <<>>) =>
            /\ DOMAIN tasks' = DOMAIN symbols
            /\ \A i \in DOMAIN tasks' : tasks'[i] = NewTask(symbols[i])
            /\ pos' = 1 /\ data' = <<>> /\ result' = NoResult
       /\ tasks # <<>> =>
            /\ DOMAIN tasks' = DOMAIN tasks
            /\ \A i \in DOMAIN tasks : tasks'[i].symbol = tasks[i].symbol
       /\ pos' > pos /\ pos > 0 => AllStarted
       /\ (\E k \in Range(symbols') : tasks' # <<>> /\ tasks'[task_of(symbols', k)].pc # "done") =>
            result' = NoResult
       /\ (Distinct(symbols') /\ ~AllDone') => result' = NoResult]_vars

\* load_historical_data has returned the series of two symbols, each fetched by its own
\* task, and both tasks are done
C19_Witness ==
    /\ result.kind = "returned"
    /\ Len(tasks) = 2
    /\ Distinct(symbols)
    /\ AllDone
    /\ \A i \in DOMAIN tasks : tasks[i].fetch_calls = 1 /\ tasks[i].symbol \in DOMAIN result.value

\* C20 as stated: for every symbol list, no two tasks that are not yet done have the
\* same symbol.
C20_AsStated ==
    \A i, j \in DOMAIN tasks :
        (i # j /\ tasks[i].pc # "done" /\ tasks[j].pc # "done") =>
            tasks[i].symbol # tasks[j].symbol

\* C20 (amended): for every symbol list without repeated symbols, no two tasks have the
\* same symbol or the same cache file, a step of a task writes no cache file but its
\* own, and a step of load_historical_data fills no slot of data but that of the symbol
\* it awaited and changes no slot already filled.
C20_NoContention ==
    [][Distinct(symbols') =>
        /\ \A i, j \in DOMAIN tasks' :
              i # j => /\ tasks'[i].symbol # tasks'[j].symbol
                       /\ file_of(tasks'[i].symbol) # file_of(tasks'[j].symbol)
        /\ \A i \in DOMAIN tasks :
              (Begins(i) \/ Resumes(i)) =>
                  /\ Written(cache, cache') \subseteq {file_of(tasks[i].symbol)}
                  /\ data' = data
        /\ \A k \in DOMAIN data : k \in DOMAIN data' /\ data'[k] = data[k]
        /\ \A k \in DOMAIN data' \ DOMAIN data :
              /\ k = task_keys(symbols)[pos]
              /\ data'[k] = tasks[task_of(symbols, k)].value]_vars

\* two tasks of different symbols wait for the provider at the same time
C20_Witness ==
    /\ Len(tasks) = 2
    /\ tasks[1].symbol # tasks[2].symbol
    /\ tasks[1].pc = "fetching"
    /\ tasks[2].pc = "fetching"
    /\ ProviderValid(tasks[1].symbol)
    /\ ProviderValid(tasks[2].symbol)

----------------------------------------------------------------------------
(* Independence of the interleaving *)

\* the client as load_historical_data finds it
ClientAtLoad == IF use_ctx THEN "open" ELSE "None"

\* one task run alone, from its start to its end, on the cache directory files
RunAlone(symbol, files, cl) ==
    LET begun == load_symbol_begin(NewTask(symbol), files, cl)
    IN  IF begun.pc = "done" THEN [task |-> begun, files |-> files]
        ELSE load_symbol_resume(begun, files, cl)

RECURSIVE OneByOne(_, _, _)

\* the reference order: the tasks of syms run one after the other, each to its end
\* before the next starts; the finished tasks and the cache directory afterwards
OneByOne(syms, files, cl) ==
    IF syms = <<>> THEN [tasks |-> <<>>, files |-> files]
    ELSE LET first == RunAlone(Head(syms), files, cl)
             rest == OneByOne(Tail(syms), first.files, cl)
         IN  [tasks |-> <<first.task>> \o rest.tasks, files |-> rest.files]

\* the outcome of load_historical_data for finished tasks: the series of the symbols
\* whose last task succeeded, or DataLoaderError when there is none
OutcomeOf(done) ==
    LET last(k) == CHOOSE i \in DOMAIN done :
                      /\ done[i].symbol = k
                      /\ \A j \in DOMAIN done : done[j].symbol = k => j <= i
        good == {k \in {done[i].symbol : i \in DOMAIN done} : done[last(k)].exc = "None"}
    IN  IF good = {} THEN Raised("DataLoaderError", "No valid data loaded for any symbol")
        ELSE Returned([k \in good |-> done[last(k)].value])

\* C21: for a fixed symbol list, initial cache content and provider behaviour, whatever
\* the order in which the tasks resume and complete, load_historical_data ends with the
\* outcome, and the cache with the content, that running the tasks one by one gives.
C21_InterleavingIndependence ==
    (Finished /\ tasks # <<>>) =>
        LET reference == OneByOne(symbols, cache0, ClientAtLoad)
        IN  /\ result = OutcomeOf(reference.tasks)
            /\ cache = reference.files

\* two tasks fetched at the same time, both series are returned and both cache files
\* were written during the run
C21_Witness ==
    /\ result.kind = "returned"
    /\ Len(tasks) = 2
    /\ tasks[1].symbol # tasks[2].symbol
    /\ \A i \in DOMAIN tasks :
          /\ tasks[i].fetch_calls = 1
          /\ tasks[i].cache_writes = 1
          /\ cache[file_of(tasks[i].symbol)] # cache0[file_of(tasks[i].symbol)]
          /\ result.value[tasks[i].symbol] = tasks[i].value

----------------------------------------------------------------------------
(* Injectivity of the cache key *)

\* C22: two acquisitions whose (symbol, timeframe, start, end) differ have different
\* cache file names, and so, in one cache directory, different cache files.
C22_KeyInjectivity ==
    (kq.state = "resolved" /\ ~SameFourTuple(kq.a, kq.b)) =>
        /\ kq.entry_a.filename # kq.entry_b.filename
        /\ kq.a.cache_dir = kq.b.cache_dir => kq.entry_a.filepath # kq.entry_b.filepath

====
